---- MODULE Spec2Model ----
(***************************************************************************)
(* A model of the wasp committee node: the peer transport's connection     *)
(* handling (package peering, peeredConnection), the consensus operator's  *)
(* event handlers (package consensus, eventproc.go), the sandbox of a VM   *)
(* call (package sandbox) and the bootup records (package registry).       *)
(*                                                                         *)
(* Each subsystem has its own specification over its own variables:        *)
(*   SpecPeering   the peered connections of one node, handler by handler  *)
(*   SpecLocking   their goroutines, statement by statement                *)
(*   SpecOperator  the consensus operator of one committee node            *)
(*   SpecSandbox   the sandbox of one VM call                              *)
(*   SpecRegistry  the bootup records in the database                      *)
(* The variables of the other subsystems keep their initial values.        *)
(***************************************************************************)
EXTENDS Integers, Sequences, FiniteSets, TLC

(***************************************************************************)
(* Bounds of the model.                                                    *)
(***************************************************************************)
\* connection objects the node creates in one run
MaxConn == 3
\* bytes of payload carried by one chunk (MaxMessageSize - ChunkMessageOverhead, scaled down)
ChunkSize == 2
\* the committee has NumPeers nodes, with peer indices 0..NumPeers-1
NumPeers == 2
\* the state indices the operator goes through: 0..MaxStateIndex
MaxStateIndex == 1
\* request ids 1..MaxReq
MaxReq == 2
\* batch timestamps 1..MaxTimestamp
MaxTimestamp == 1
\* VM tasks dispatched and not yet completed
MaxTasks == 2
\* the IOTA input balance of the transaction builder when the sandbox is created
InitialIotas == 3
\* the largest reward a request sent from the sandbox includes
MaxReward == 2
\* request blocks one transaction builder takes
MaxBlocks == 2
\* mutations one state update holds
MaxMutations == 1
\* the connections whose goroutines are followed statement by statement
MaxLockConn == 2

(***************************************************************************)
(* PEERING: constants of the wire format and the peer registry.            *)
(***************************************************************************)
MsgTypeHandshake == 0
MsgTypeHeartbeat == 1
MsgTypeMsgChunk == 2
\* the first application defined message type
FirstCommitteeMsgCode == 16

\* peering ids are host:port strings, ordered lexicographically; modelled by
\* integers with the same order. The local node is OwnPeeringId.
OwnPeeringId == 2
\* the peer registry (the `peers` map): the configured peers
PeerIds == {1, 3}
\* an id no registry entry has
UnknownPeeringId == OwnPeeringId + 2

NoConn == 0
NoPeer == 0
Conns == 1..MaxConn

\* Peer.PeeringId() as the bytes of the string
PeeringId(p) == <<p>>
\* Peer.isInbound(): the local listen address is less than the peer's
isInbound(p) == OwnPeeringId < p

VARIABLES
    peerconn,     \* Peer.peerconn: the connection slot of each peer
    handshakeOk,  \* Peer.handshakeOk
    connState,    \* each connection object: "none" (not created), "open", "closed"
    connPeer,     \* peeredConnection.peer: the peer a connection is bound to
    chunks,       \* the chopper's reassembly buffer (one per process)
    triggered,    \* EventPeerMessageReceived.Trigger calls of the last handler run
    assembled,    \* the composites the chopper completed in the last handler run (history)
    handshakeSent, \* the peers the last handler run has sent a HANDSHAKE to, with the outcome
    panicked,     \* a handler dereferenced a nil peer: the process is down
    lastEv        \* the event handled last (history)

peeringVars ==
    <<peerconn, handshakeOk, connState, connPeer, chunks, triggered, assembled, handshakeSent,
      panicked, lastEv>>

\* the variables of the consensus operator
VARIABLES
    stateIndex,       \* the index of op.currentState, NoState before the first state
    programHash,      \* the program hash of the current state, NoHash when undefined
    synchronized,     \* op.synchronized
    processorReady,   \* op.processorReady
    leader,           \* op.peerPermutation.Current(): the current leader's peer index
    leaderRotationDeadlineSet,
    requests,         \* op.requests, the backlog: request id -> NoRequest or [ready, notified]
    leaderStatus,     \* op.leaderStatus: NoLeaderStatus or [batchHash, reqIds, timestamp, signedResults]
    vmTasks,          \* the VM tasks dispatched and not yet completed
    vmTaskRunning,    \* the vm_task_running flag
    sent,             \* the messages the last handler run sent (to peers, state manager, ledger)
    dispatched,       \* the VM tasks the last handler run dispatched
    tookAction,       \* the last handler run called takeAction (history)
    readyFor,         \* the program hash processorReady was last set to true for (history)
    deadlineRearmed,  \* the last handler run called setLeaderRotationDeadline (history)
    opEv              \* the event handled last: the handler, the state index it is for,
                      \* the requests it reports completed and failed to delete (history)

\* the goroutines of the peered connections, statement by statement
VARIABLES
    recvAt,          \* each connection's receive handler: "idle" or the line it is at
    recvMsg,         \* the message the receive handler is working on
    closeAt,         \* each connection's Close handler: "idle", the line it is at, "done"
    mutex            \* each peer's mutex: NoHolder or the goroutine that holds it

lockVars == <<recvAt, recvMsg, closeAt, mutex>>

\* the variables of one sandbox (package sandbox)
VARIABLES
    builders,        \* the txbuilder.Builder objects: builder id -> content
    txBuilder,       \* vctx.TxBuilder: the id of the builder the VM call works on
    saveTxBuilder,   \* sandbox.saveTxBuilder: the id of the builder kept for rollback
    stateUpdate,     \* vctx.StateUpdate: the mutations of the VM call
    sbEv             \* the sandbox call made last and what it returned (history)

sandboxVars == <<builders, txBuilder, saveTxBuilder, stateUpdate, sbEv>>

\* the variables of the registry (package registry)
VARIABLES
    registry,        \* the registry partition of the database: address -> stored bytes
    published,       \* what the last call published
    regEv            \* the registry call made last: its arguments and its result (history)

registryVars == <<registry, published, regEv>>

operatorVars ==
    <<stateIndex, programHash, synchronized, processorReady, leader, leaderRotationDeadlineSet,
      requests, leaderStatus, vmTasks, vmTaskRunning, sent, dispatched, tookAction, readyFor,
      deadlineRearmed, opEv>>

(***************************************************************************)
(* Wire format. A message on the wire is a sequence of numbers:            *)
(*   msg   := msg_type, timestamp, payload...                              *)
(*   chunk := msg_type = MSG_CHUNK, payload = idx, total, logical_id, bytes*)
(***************************************************************************)
MsgHeaderLen == 2
ChunkHeaderLen == 3

DecodeError == [err |-> TRUE]

\* decodeMessage: too short data is an error
decodeMessage(data) ==
    IF Len(data) < MsgHeaderLen
    THEN DecodeError
    ELSE [err |-> FALSE,
          MsgType |-> data[1],
          Timestamp |-> data[2],
          MsgData |-> SubSeq(data, MsgHeaderLen + 1, Len(data))]

encodeMessage(type, ts, payload) == <<type, ts>> \o payload

\* the sender's side of the chopper: the i-th (0-based) of n pieces of data
ChunkBytes(data, i) ==
    SubSeq(data, i * ChunkSize + 1,
           IF (i + 1) * ChunkSize < Len(data) THEN (i + 1) * ChunkSize ELSE Len(data))

NumChunks(data) == (Len(data) + ChunkSize - 1) \div ChunkSize

\* chopper.ChopData wrapped into MSG_CHUNK messages: the set of wire messages
ChopData(data, msgId, ts) ==
    { encodeMessage(MsgTypeMsgChunk, ts, <<i, NumChunks(data), msgId>> \o ChunkBytes(data, i)) :
        i \in 0..(NumChunks(data) - 1) }

RECURSIVE Concat(_)
Concat(pieces) ==
    IF pieces = <<>> THEN <<>> ELSE Head(pieces) \o Concat(Tail(pieces))

NoPiece == <<-1>>

\* chopper.IncomingChunk on buffer ch, the chunk arriving on connection c:
\* [err, final, ch]. final = <<>> while the message is incomplete. The buffer
\* is keyed by the logical message id alone; `from` (history) records the
\* connections the buffered pieces came in on.
IncomingChunk(ch, chunkData, c) ==
    IF Len(chunkData) < ChunkHeaderLen
    THEN [err |-> TRUE, final |-> <<>>, from |-> {}, ch |-> ch]
    ELSE
    LET idx == chunkData[1]
        total == chunkData[2]
        msgId == chunkData[3]
        bytes == SubSeq(chunkData, ChunkHeaderLen + 1, Len(chunkData))
        dip == IF msgId \in DOMAIN ch
               THEN ch[msgId]
               ELSE [numChunks |-> total, buffer |-> [i \in 1..total |-> NoPiece], from |-> {}]
    IN  IF Len(bytes) > ChunkSize \/ idx >= total \/ idx < 0
        THEN [err |-> TRUE, final |-> <<>>, from |-> {}, ch |-> ch]
        ELSE IF idx >= dip.numChunks \/ dip.buffer[idx + 1] # NoPiece
        THEN [err |-> TRUE, final |-> <<>>, from |-> {}, ch |-> ch]
        ELSE
        LET dip2 == [dip EXCEPT !.buffer[idx + 1] = bytes, !.from = @ \cup {c}]
            complete == \A i \in 1..dip2.numChunks : dip2.buffer[i] # NoPiece
        IN  IF complete
            THEN [err |-> FALSE, final |-> Concat(dip2.buffer), from |-> dip2.from,
                  ch |-> [m \in (DOMAIN ch) \ {msgId} |-> ch[m]]]
            ELSE [err |-> FALSE, final |-> <<>>, from |-> {},
                  ch |-> [m \in (DOMAIN ch) \cup {msgId} |-> IF m = msgId THEN dip2 ELSE ch[m]]]

(***************************************************************************)
(* PEERING: the handlers. A handler is a function of the transport state   *)
(* st = [pc, hs, cs, cp, ch, tr, asm, snt, pn] (peerconn, handshakeOk,     *)
(* connState, connPeer, chunks, triggered, assembled, handshakeSent,       *)
(* panicked), composed as the code runs.                                   *)
(***************************************************************************)
PeeringState ==
    [pc |-> peerconn, hs |-> handshakeOk, cs |-> connState, cp |-> connPeer,
     ch |-> chunks, tr |-> <<>>, asm |-> <<>>, snt |-> <<>>, pn |-> panicked]

\* newPeeredConnection(conn, peer): a new open connection object bound to peer
newPeeredConnection(st, c, p) ==
    [st EXCEPT !.cs[c] = "open", !.cp[c] = p]

\* the closure attached to bconn.Events.Close
CloseHandler(st, c) ==
    IF st.cp[c] # NoPeer
    THEN [st EXCEPT !.pc[st.cp[c]] = NoConn, !.hs[st.cp[c]] = FALSE]
    ELSE st

\* BufferedConnection.Close: closes once and triggers Events.Close
Close(st, c) ==
    IF st.cs[c] = "open"
    THEN CloseHandler([st EXCEPT !.cs[c] = "closed"], c)
    ELSE st

\* Peer.closeConn on a nil peer dereferences nil; otherwise it closes the
\* connection in the peer's slot, when there is one
closeConn(st, p) ==
    IF p = NoPeer
    THEN [st EXCEPT !.pn = TRUE]
    ELSE IF st.pc[p] # NoConn THEN Close(st, st.pc[p]) ELSE st

\* a variant that takes any HANDSHAKE reply for the expected one
HandShakeOutboundAnyReply(st, c, msg) ==
    [st EXCEPT !.hs[st.cp[c]] = TRUE]

processHandShakeOutbound(st, c, msg) ==
    IF msg.MsgData # PeeringId(st.cp[c])
    THEN closeConn(st, st.cp[c])
    ELSE [st EXCEPT !.hs[st.cp[c]] = TRUE]

\* the lookup of processHandShakeInbound: the registered peers with the id
\* that are inbound
InboundPeersOfId(id) == { p \in PeerIds : PeeringId(p) = id /\ isInbound(p) }

\* Peer.sendHandshake: a HANDSHAKE with the node's own id to the peer; ok
\* tells whether the send succeeded
sendHandshake(st, p, ok) ==
    [st EXCEPT !.snt = Append(@, [peer |-> p, ok |-> ok])]

\* a variant that binds the connection to any registered peer
HandShakeInboundAnyRegistered(st, c, msg, sendOk) ==
    LET found == { p \in PeerIds : PeeringId(p) = msg.MsgData }
    IN  IF found = {}
        THEN Close(st, c)
        ELSE LET peer == CHOOSE p \in found : TRUE
                 bound == [st EXCEPT !.cp[c] = peer, !.pc[peer] = c, !.hs[peer] = TRUE]
                 replied == sendHandshake(bound, peer, sendOk)
             IN  IF sendOk THEN replied ELSE Close(replied, c)

processHandShakeInbound(st, c, msg, sendOk) ==
    LET found == { p \in PeerIds : PeeringId(p) = msg.MsgData }
    IN  IF found = {} \/ \E p \in found : ~isInbound(p)
        THEN Close(st, c)
        ELSE LET peer == CHOOSE p \in found : TRUE
                 bound == [st EXCEPT !.cp[c] = peer, !.pc[peer] = c, !.hs[peer] = TRUE]
                 replied == sendHandshake(bound, peer, sendOk)
             IN  IF sendOk THEN replied ELSE Close(replied, c)

\* receiveData from line 59 on: what is done with a decoded message
dispatchMessage(st, c, msg, sendOk) ==
    IF st.cp[c] # NoPeer
    THEN IF st.hs[st.cp[c]]
         THEN IF msg.MsgType = MsgTypeHeartbeat
              THEN st
              ELSE [st EXCEPT !.tr = Append(@, msg)]
         ELSE IF msg.MsgType # MsgTypeHandshake
              THEN st
              ELSE processHandShakeOutbound(st, c, msg)
    ELSE IF msg.MsgType # MsgTypeHandshake
         THEN st
         ELSE processHandShakeInbound(st, c, msg, sendOk)

\* peeredConnection.receiveData
RECURSIVE receiveData(_, _, _, _)
receiveData(st, c, data, sendOk) ==
    LET msg == decodeMessage(data)
    IN  IF msg.err
        THEN closeConn(st, st.cp[c])
        ELSE IF msg.MsgType = MsgTypeMsgChunk
        THEN LET r == IncomingChunk(st.ch, msg.MsgData, c)
                 st1 == [st EXCEPT !.ch = r.ch,
                                   !.asm = IF r.final # <<>>
                                           THEN Append(@, [data |-> r.final, from |-> r.from])
                                           ELSE @]
             IN  IF r.err
                 THEN st1
                 ELSE IF r.final # <<>>
                 THEN LET st2 == receiveData(st1, c, r.final, sendOk)
                      IN  IF st2.pn THEN st2 ELSE dispatchMessage(st2, c, msg, sendOk)
                 ELSE dispatchMessage(st1, c, msg, sendOk)
        ELSE dispatchMessage(st, c, msg, sendOk)

(***************************************************************************)
(* PEERING: what arrives on the wire, and the actions.                     *)
(***************************************************************************)
\* two oversize logical messages that their senders chop under the same id
LogicalA == encodeMessage(FirstCommitteeMsgCode, 1, <<20, 21>>)
LogicalB == encodeMessage(FirstCommitteeMsgCode + 1, 1, <<30, 31>>)

HandshakeMsgs ==
    { encodeMessage(MsgTypeHandshake, 1, PeeringId(id)) : id \in PeerIds \cup {UnknownPeeringId} }

ChunkMsgs == ChopData(LogicalA, 1, 1) \cup ChopData(LogicalB, 1, 1)

\* a chunk whose index is not below its total
BadChunkMsg == encodeMessage(MsgTypeMsgChunk, 1, <<5, 2, 1, 20>>)

WireInputs ==
    {<<>>}
    \cup HandshakeMsgs
    \cup {encodeMessage(MsgTypeHeartbeat, 1, <<>>)}
    \cup {encodeMessage(FirstCommitteeMsgCode, 1, <<20>>)}
    \cup ChunkMsgs
    \cup {BadChunkMsg}

\* the next connection object to be created
FreeConn(c) == connState[c] = "none" /\ \A d \in Conns : d < c => connState[d] # "none"

Commit(st) ==
    /\ peerconn' = st.pc
    /\ handshakeOk' = st.hs
    /\ connState' = st.cs
    /\ connPeer' = st.cp
    /\ chunks' = st.ch
    /\ triggered' = st.tr
    /\ assembled' = st.asm
    /\ handshakeSent' = st.snt
    /\ panicked' = st.pn
    /\ UNCHANGED <<operatorVars, sandboxVars, registryVars, lockVars>>

PeeringInit ==
    /\ peerconn = [p \in PeerIds |-> NoConn]
    /\ handshakeOk = [p \in PeerIds |-> FALSE]
    /\ connState = [c \in Conns |-> "none"]
    /\ connPeer = [c \in Conns |-> NoPeer]
    /\ chunks = <<>>
    /\ triggered = <<>>
    /\ assembled = <<>>
    /\ handshakeSent = <<>>
    /\ panicked = FALSE
    /\ lastEv = [op |-> "init", conn |-> NoConn, data |-> <<>>]

\* the listener accepts a connection: a detached peered connection
Accept ==
    /\ ~panicked
    /\ \E c \in Conns :
        /\ FreeConn(c)
        /\ Commit(newPeeredConnection(PeeringState, c, NoPeer))
        /\ lastEv' = [op |-> "accept", conn |-> c, data |-> <<>>]

\* an outbound peer without a connection dials: the connection is created
\* bound to the peer and put into the peer's slot, and the HANDSHAKE is sent
Dial ==
    /\ ~panicked
    /\ \E p \in PeerIds, c \in Conns :
        /\ ~isInbound(p)
        /\ peerconn[p] = NoConn
        /\ FreeConn(c)
        /\ Commit(sendHandshake([newPeeredConnection(PeeringState, c, p) EXCEPT !.pc[p] = c],
                                p, TRUE))
        /\ lastEv' = [op |-> "dial", conn |-> c, data |-> <<>>]

\* a message arrives on an open connection
ReceiveData ==
    /\ ~panicked
    /\ \E c \in Conns, data \in WireInputs :
      \E sendOk \in (IF data \in HandshakeMsgs THEN BOOLEAN ELSE {TRUE}) :
        /\ connState[c] = "open"
        /\ Commit(receiveData(PeeringState, c, data, sendOk))
        /\ lastEv' = [op |-> "receiveData", conn |-> c, data |-> data]

\* an open connection is closed (by the remote side, an i/o error or the node)
ConnClose ==
    /\ ~panicked
    /\ \E c \in Conns :
        /\ connState[c] = "open"
        /\ Commit(Close(PeeringState, c))
        /\ lastEv' = [op |-> "close", conn |-> c, data |-> <<>>]

PeeringNext == Accept \/ Dial \/ ReceiveData \/ ConnClose

(***************************************************************************)
(* OPERATOR: the consensus operator of one committee node.                 *)
(***************************************************************************)
Peers == 0..(NumPeers - 1)
OwnPeerIndex == 0
\* the signature threshold of the committee
Quorum == NumPeers
ReqIds == 1..MaxReq
Timestamps == 1..MaxTimestamp
StateIndices == 0..MaxStateIndex

\* currentState == nil: no state index
NoState == -1
NoHash == ""
ProgramHashes == {"h1", "h2"}
NoLeaderStatus == <<>>
NoResult == <<>>
NoRequest == <<>>

vars == <<peeringVars, operatorVars, sandboxVars, registryVars, lockVars>>

\* the operator's state as a record, threaded through a handler as the code
\* runs; sent, dispatched and deadlineFresh are what the handler run has done
OperatorState ==
    [stateIndex |-> stateIndex, programHash |-> programHash, synchronized |-> synchronized,
     processorReady |-> processorReady, leader |-> leader,
     leaderRotationDeadlineSet |-> leaderRotationDeadlineSet, requests |-> requests,
     leaderStatus |-> leaderStatus, vmTasks |-> vmTasks, vmTaskRunning |-> vmTaskRunning,
     sent |-> <<>>, dispatched |-> <<>>, tookAction |-> FALSE, readyFor |-> readyFor,
     deadlineFresh |-> FALSE]

Msg(type, to, body) == [type |-> type, to |-> to, body |-> body]

\* ascending insertion of x into the sorted sequence s
RECURSIVE InsertSorted(_, _)
InsertSorted(x, s) ==
    IF s = <<>> THEN <<x>>
    ELSE IF x <= Head(s) THEN <<x>> \o s
    ELSE <<Head(s)>> \o InsertSorted(x, Tail(s))

RECURSIVE SortedIds(_)
SortedIds(s) == IF s = <<>> THEN <<>> ELSE InsertSorted(Head(s), SortedIds(Tail(s)))

RECURSIVE SetToSortedSeq(_)
SetToSortedSeq(S) ==
    IF S = {} THEN <<>>
    ELSE LET m == CHOOSE x \in S : \A y \in S : x <= y
         IN  <<m>> \o SetToSortedSeq(S \ {m})

\* vm.BatchHash: a hash of the sorted request ids and the timestamp
BatchHash(reqIds, ts) == <<SortedIds(reqIds), ts>>

\* the essence hash of the anchor transaction the VM produces for a task
EssenceHash(task) == <<task.stateIndex, SortedIds(task.requests), task.timestamp>>
\* an essence hash no honest VM run produces
WrongEssenceHash == <<>>

\* op.stateIndex(): [ok, idx]
stateIndexOk(st) == st.stateIndex # NoState

iAmCurrentLeader(st) == st.leader = OwnPeerIndex

\* op.takeFromIds: the requests of the backlog among reqIds, in order
takeFromIds(st, reqIds) ==
    LET InBacklog(r) == st.requests[r] # NoRequest
    IN  SelectSeq(reqIds, InBacklog)

\* op.filterNotReadyYet: the requests whose request message has arrived
filterNotReadyYet(st, reqs) ==
    LET Ready(r) == st.requests[r] # NoRequest /\ st.requests[r].ready
    IN  SelectSeq(reqs, Ready)

\* op.runCalculationsAsync: dispatches the VM task for the current state and
\* sets the vm_task_running flag
runCalculationsAsync(st, par) ==
    LET task == [requests |-> par.requests, timestamp |-> par.timestamp,
                 leaderPeerIndex |-> par.leaderPeerIndex, stateIndex |-> st.stateIndex]
    IN  [st EXCEPT !.vmTasks = Append(@, task),
                   !.dispatched = Append(@, task),
                   !.vmTaskRunning = TRUE]


\* the size of a sequence-indexed map's non-empty part
NumSigned(ls) == Cardinality({ i \in Peers : ls.signedResults[i] # NoResult })

\* a request is eligible when its message has arrived and at least
\* Quorum - 1 other committee members have notified it
Eligible(st) ==
    { r \in ReqIds :
        /\ st.requests[r] # NoRequest
        /\ st.requests[r].ready
        /\ Cardinality(st.requests[r].notified \ {OwnPeerIndex}) >= Quorum - 1 }

\* op.setLeaderRotationDeadline: the deadline is a period from now, so it
\* has not passed while the handler that set it is running (deadlineFresh)
setLeaderRotationDeadline(st) ==
    [st EXCEPT !.leaderRotationDeadlineSet = TRUE, !.deadlineFresh = TRUE]

\* leader rotation on the deadline: the next peer leads, the leader status is reset
rotateLeader(st) ==
    setLeaderRotationDeadline(
        [st EXCEPT !.leader = (@ + 1) % NumPeers, !.leaderStatus = NoLeaderStatus])

\* step 3a of takeAction: the leader proposes a batch and starts its own VM task
startProcessing(st, ts) ==
    LET reqIds == SetToSortedSeq(Eligible(st))
        others == SetToSortedSeq(Peers \ {OwnPeerIndex})
        status == [batchHash |-> BatchHash(reqIds, ts), reqIds |-> reqIds, timestamp |-> ts,
                   signedResults |-> [i \in Peers |-> NoResult]]
        st1 == [st EXCEPT !.leaderStatus = status,
                          !.sent = @ \o [i \in 1..Len(others) |->
                                Msg("StartProcessingBatchMsg", others[i],
                                    <<st.stateIndex, reqIds, ts>>)]]
    IN  IF reqIds = <<>> \/ st.vmTaskRunning \/ Len(st.vmTasks) >= MaxTasks
        THEN st
        ELSE runCalculationsAsync(st1, [requests |-> reqIds, timestamp |-> ts,
                                        leaderPeerIndex |-> OwnPeerIndex])

\* step 3b of takeAction: with a quorum of signed results the leader submits
\* the anchor transaction and clears its leader status
checkQuorum(st) ==
    IF NumSigned(st.leaderStatus) >= Quorum
    THEN [st EXCEPT !.leaderStatus = NoLeaderStatus,
                    !.sent = Append(@, Msg("Anchor", "ledger", <<st.stateIndex, st.leaderStatus.batchHash>>))]
    ELSE st

\* op.takeAction. env = [expired, ts]: whether the leader rotation deadline
\* has passed, and the timestamp a new batch would get
takeAction(st0, env) ==
    LET st == [st0 EXCEPT !.tookAction = TRUE]
    IN
    IF ~st.synchronized \/ ~st.processorReady
    THEN st
    ELSE LET st1 == IF env.expired /\ st.leaderRotationDeadlineSet /\ ~st.deadlineFresh
                    THEN rotateLeader(st)
                    ELSE st
         IN  IF iAmCurrentLeader(st1)
             THEN IF st1.leaderStatus = NoLeaderStatus
                  THEN startProcessing(st1, env.ts)
                  ELSE checkQuorum(st1)
             ELSE st1

\* what a handler run finds: the deadline can have passed only when one is
\* set; takeAction looks at it only when synchronized with a ready processor
Envs ==
    [expired : IF synchronized /\ processorReady /\ leaderRotationDeadlineSet
               THEN BOOLEAN ELSE {FALSE},
     ts : Timestamps]

\* op.sendRequestNotificationsToLeader: a NotifyReqMsg to the current leader
sendRequestNotificationsToLeader(st, reqIds) ==
    IF iAmCurrentLeader(st)
    THEN st
    ELSE [st EXCEPT !.sent = Append(@, Msg("NotifyReqMsg", st.leader, <<st.stateIndex, reqIds>>))]

\* the ids of the backlog requests whose message has arrived
ReadyIds(st) ==
    SetToSortedSeq({ r \in ReqIds : st.requests[r] # NoRequest /\ st.requests[r].ready })

(***************************************************************************)
(* OPERATOR: the event handlers of eventproc.go.                           *)
(***************************************************************************)
EventProcessorReady(st, msg) ==
    IF st.processorReady
    THEN st
    ELSE LET ready == st.programHash # NoHash /\ msg.ProgramHash = st.programHash
         IN  [st EXCEPT !.processorReady = ready,
                        !.readyFor = IF ready THEN msg.ProgramHash ELSE @]

\* op.setNewState: the operator moves to the state of the message; the
\* leader is the first of the permutation seeded by the new state
setNewState(st, msg) ==
    [st EXCEPT !.stateIndex = msg.StateIndex,
               !.programHash = msg.ProgramHash,
               !.synchronized = msg.Synchronized,
               !.leader = msg.Leader,
               !.leaderStatus = NoLeaderStatus]

\* op.deleteCompletedRequests: the requests processed in the new state leave the backlog
deleteCompletedRequests(st, completed) ==
    [st EXCEPT !.requests = [r \in ReqIds |-> IF r \in completed THEN NoRequest ELSE @[r]]]

\* a variant that leaves the completed requests in the backlog
StateTransitionKeepingBacklog(st, msg, env) ==
    LET st1 == setNewState(st, msg)
        st3 == setLeaderRotationDeadline(sendRequestNotificationsToLeader(st1, ReadyIds(st1)))
        st4 == [st3 EXCEPT !.processorReady = FALSE, !.readyFor = NoHash]
        st5 == [st4 EXCEPT !.processorReady = msg.ProcessorLoaded,
                           !.readyFor = IF msg.ProcessorLoaded THEN st4.programHash ELSE @]
    IN  IF msg.DeleteError
        THEN st1
        ELSE IF st4.programHash = NoHash
        THEN st4
        ELSE takeAction(st5, env)

EventStateTransitionMsg(st, msg, env) ==
    LET st1 == setNewState(st, msg)
        st2 == deleteCompletedRequests(st1, msg.Completed)
        st3 == setLeaderRotationDeadline(sendRequestNotificationsToLeader(st2, ReadyIds(st2)))
        st4 == [st3 EXCEPT !.processorReady = FALSE, !.readyFor = NoHash]
        st5 == [st4 EXCEPT !.processorReady = msg.ProcessorLoaded,
                           !.readyFor = IF msg.ProcessorLoaded THEN st4.programHash ELSE @]
    IN  IF msg.DeleteError
        THEN st1
        ELSE IF st4.programHash = NoHash
        THEN st4
        ELSE takeAction(st5, env)

\* op.requestFromMsg: the request enters the backlog, or an entry known
\* from notifications alone gets its message: [st, newRequest]
requestFromMsg(st, reqId) ==
    IF st.requests[reqId] = NoRequest
    THEN [st |-> [st EXCEPT !.requests[reqId] = [ready |-> TRUE, notified |-> {OwnPeerIndex}]],
          newRequest |-> TRUE]
    ELSE [st |-> [st EXCEPT !.requests[reqId].ready = TRUE,
                            !.requests[reqId].notified = @ \cup {OwnPeerIndex}],
          newRequest |-> FALSE]

\* a variant that takes the request without validating its block
RequestUnvalidated(st, reqMsg, env) ==
    LET r == requestFromMsg(st, reqMsg.RequestId)
        st1 == IF r.newRequest
               THEN [r.st EXCEPT !.sent = Append(@, Msg("request_in", "publisher", <<reqMsg.RequestId>>))]
               ELSE r.st
        st2 == sendRequestNotificationsToLeader(st1, <<reqMsg.RequestId>>)
        st3 == IF ~st2.leaderRotationDeadlineSet THEN setLeaderRotationDeadline(st2) ELSE st2
    IN  takeAction(st3, env)

\* a variant that sets the leader rotation deadline on every valid request
RequestRearmingDeadline(st, reqMsg, env) ==
    IF ~reqMsg.Valid
    THEN st
    ELSE LET r == requestFromMsg(st, reqMsg.RequestId)
             st1 == IF r.newRequest
                    THEN [r.st EXCEPT !.sent = Append(@, Msg("request_in", "publisher", <<reqMsg.RequestId>>))]
                    ELSE r.st
             st2 == sendRequestNotificationsToLeader(st1, <<reqMsg.RequestId>>)
             st3 == setLeaderRotationDeadline(st2)
         IN  takeAction(st3, env)

EventRequestMsg(st, reqMsg, env) ==
    IF ~reqMsg.Valid
    THEN st
    ELSE LET r == requestFromMsg(st, reqMsg.RequestId)
             st1 == IF r.newRequest
                    THEN [r.st EXCEPT !.sent = Append(@, Msg("request_in", "publisher", <<reqMsg.RequestId>>))]
                    ELSE r.st
             st2 == sendRequestNotificationsToLeader(st1, <<reqMsg.RequestId>>)
             st3 == IF ~st2.leaderRotationDeadlineSet THEN setLeaderRotationDeadline(st2) ELSE st2
         IN  takeAction(st3, env)

\* op.markRequestsNotified: the sender has seen each listed request
RECURSIVE markRequestsNotified(_, _, _)
markRequestsNotified(st, sender, reqIds) ==
    IF reqIds = <<>>
    THEN st
    ELSE LET r == Head(reqIds)
             entry == IF st.requests[r] = NoRequest
                      THEN [ready |-> FALSE, notified |-> {sender}]
                      ELSE [st.requests[r] EXCEPT !.notified = @ \cup {sender}]
         IN  markRequestsNotified([st EXCEPT !.requests[r] = entry], sender, Tail(reqIds))

EventNotifyReqMsg(st, msg, env) ==
    LET st1 == IF stateIndexOk(st) /\ msg.StateIndex = st.stateIndex
               THEN markRequestsNotified(st, msg.SenderIndex, msg.RequestIds)
               ELSE st
    IN  takeAction(st1, env)

\* a variant that skips the readiness count: a task over the ready requests
\* of the listed ones
StartProcessingBatchOverReady(st, msg) ==
    IF ~stateIndexOk(st) \/ msg.StateIndex # st.stateIndex
    THEN st
    ELSE LET numOrig == Len(msg.RequestIds)
             reqs == takeFromIds(st, msg.RequestIds)
             ready == filterNotReadyYet(st, reqs)
         IN  IF Len(reqs) # numOrig \/ ready = <<>>
             THEN st
             ELSE runCalculationsAsync(st, [requests |-> ready,
                                            timestamp |-> msg.Timestamp,
                                            leaderPeerIndex |-> msg.SenderIndex])

EventStartProcessingBatchMsg(st, msg) ==
    IF ~stateIndexOk(st) \/ msg.StateIndex # st.stateIndex
    THEN st
    ELSE LET numOrig == Len(msg.RequestIds)
             reqs == takeFromIds(st, msg.RequestIds)
             ready == filterNotReadyYet(st, reqs)
         IN  IF Len(reqs) # numOrig
             THEN st
             ELSE IF Len(ready) # numOrig
             THEN st
             ELSE runCalculationsAsync(st, [requests |-> ready,
                                            timestamp |-> msg.Timestamp,
                                            leaderPeerIndex |-> msg.SenderIndex])

\* op.saveOwnResult: the leader's own signed result
saveOwnResult(st, ctx) ==
    IF st.leaderStatus = NoLeaderStatus
    THEN st
    ELSE [st EXCEPT !.leaderStatus.signedResults[OwnPeerIndex] =
                        [essenceHash |-> EssenceHash(ctx), sigShare |-> OwnPeerIndex]]

\* op.sendResultToTheLeader: a SignedHashMsg to the task's leader
sendResultToTheLeader(st, ctx) ==
    [st EXCEPT !.sent = Append(@, Msg("SignedHashMsg", ctx.leaderPeerIndex,
                                      <<st.stateIndex, BatchHash(ctx.requests, ctx.timestamp),
                                        EssenceHash(ctx)>>))]

\* ctx.ResultBatch.StateIndex(): the batch of a task follows the state it ran on
ResultStateIndex(ctx) == ctx.stateIndex + 1

\* a variant that sends every result to the task's leader, the node's own too
ResultCalculatedAlwaysSent(st, ctx, env) ==
    IF ResultStateIndex(ctx) # st.stateIndex + 1
    THEN st
    ELSE LET st1 == [st EXCEPT !.sent = Append(@, Msg("PendingBatchMsg", "statemgr",
                                                       <<ResultStateIndex(ctx)>>))]
         IN  takeAction(sendResultToTheLeader(st1, ctx), env)

\* a variant without the check that the result belongs to the context
ResultCalculatedAnyContext(st, ctx, env) ==
    LET st1 == [st EXCEPT !.sent = Append(@, Msg("PendingBatchMsg", "statemgr",
                                                  <<ResultStateIndex(ctx)>>))]
        st2 == IF ctx.leaderPeerIndex = OwnPeerIndex
               THEN saveOwnResult(st1, ctx)
               ELSE sendResultToTheLeader(st1, ctx)
    IN  takeAction(st2, env)

EventResultCalculated(st, ctx, env) ==
    IF ResultStateIndex(ctx) # st.stateIndex + 1
    THEN st
    ELSE LET st1 == [st EXCEPT !.sent = Append(@, Msg("PendingBatchMsg", "statemgr",
                                                       <<ResultStateIndex(ctx)>>))]
             st2 == IF ctx.leaderPeerIndex = OwnPeerIndex
                    THEN saveOwnResult(st1, ctx)
                    ELSE sendResultToTheLeader(st1, ctx)
         IN  takeAction(st2, env)

\* a variant without the check for a repeated share of the same sender
SignedHashOverwriting(st, msg, env) ==
    IF st.leaderStatus = NoLeaderStatus
    THEN st
    ELSE IF ~stateIndexOk(st) \/ msg.StateIndex # st.stateIndex
    THEN st
    ELSE IF msg.BatchHash # st.leaderStatus.batchHash
    THEN st
    ELSE takeAction(
            [st EXCEPT !.leaderStatus.signedResults[msg.SenderIndex] =
                            [essenceHash |-> msg.EssenceHash, sigShare |-> msg.SigShare]],
            env)

EventSignedHashMsg(st, msg, env) ==
    IF st.leaderStatus = NoLeaderStatus
    THEN st
    ELSE IF ~stateIndexOk(st) \/ msg.StateIndex # st.stateIndex
    THEN st
    ELSE IF msg.BatchHash # st.leaderStatus.batchHash
    THEN st
    ELSE IF st.leaderStatus.signedResults[msg.SenderIndex] # NoResult
    THEN st
    ELSE takeAction(
            [st EXCEPT !.leaderStatus.signedResults[msg.SenderIndex] =
                            [essenceHash |-> msg.EssenceHash, sigShare |-> msg.SigShare]],
            env)

EventTimerMsg(st, tick, env) ==
    IF tick % 2 = 0 THEN takeAction(st, env) ELSE st

(***************************************************************************)
(* OPERATOR: the events that arrive, and the actions. Each action runs one *)
(* handler on the operator's single event context.                         *)
(***************************************************************************)
ReqIdLists == { SetToSortedSeq(S) : S \in (SUBSET ReqIds) \ {{}} }
OtherPeers == Peers \ {OwnPeerIndex}

\* the next state: its program hash, whether the node is synchronized, the
\* leader its hash seeds, the backlog requests it has processed, whether
\* deleting them fails, and whether the processor of its program is loaded
StateTransitionMsgs ==
    [StateIndex : {stateIndex + 1}, ProgramHash : {NoHash, "h1"}, Synchronized : BOOLEAN,
     Leader : Peers, Completed : SUBSET { r \in ReqIds : requests[r] # NoRequest },
     DeleteError : BOOLEAN, ProcessorLoaded : BOOLEAN]

ProcessorIsReadyMsgs == [ProgramHash : ProgramHashes]

RequestMsgs == [RequestId : ReqIds, Valid : BOOLEAN]

NotifyReqMsgs == [SenderIndex : OtherPeers, StateIndex : StateIndices, RequestIds : ReqIdLists]

StartProcessingBatchMsgs ==
    [SenderIndex : OtherPeers, StateIndex : StateIndices, RequestIds : ReqIdLists,
     Timestamp : Timestamps]

BatchHashes == { BatchHash(ids, ts) : ids \in ReqIdLists, ts \in Timestamps }

\* the essence hash an honest run on the batch gives, or another one
SignedHashMsgs ==
    UNION { { [SenderIndex |-> i, StateIndex |-> si, BatchHash |-> bh, EssenceHash |-> eh,
               SigShare |-> i] : i \in OtherPeers, eh \in {<<si, bh[1], bh[2]>>, WrongEssenceHash} } :
            si \in StateIndices, bh \in BatchHashes }

TimerTicks == {1, 2}

CommitOperator(st) ==
    /\ stateIndex' = st.stateIndex
    /\ programHash' = st.programHash
    /\ synchronized' = st.synchronized
    /\ processorReady' = st.processorReady
    /\ leader' = st.leader
    /\ leaderRotationDeadlineSet' = st.leaderRotationDeadlineSet
    /\ requests' = st.requests
    /\ leaderStatus' = st.leaderStatus
    /\ vmTasks' = st.vmTasks
    /\ vmTaskRunning' = st.vmTaskRunning
    /\ sent' = st.sent
    /\ dispatched' = st.dispatched
    /\ tookAction' = st.tookAction
    /\ readyFor' = st.readyFor
    /\ deadlineRearmed' = st.deadlineFresh
    /\ UNCHANGED <<peeringVars, sandboxVars, registryVars, lockVars>>

\* the event handled last: the handler, and the state index the event is for
Ev(op, si) == [op |-> op, stateIndex |-> si, completed |-> {}, deleteError |-> FALSE]

OperatorInit ==
    /\ stateIndex = NoState
    /\ programHash = NoHash
    /\ synchronized = FALSE
    /\ processorReady = FALSE
    /\ leader = OwnPeerIndex
    /\ leaderRotationDeadlineSet = FALSE
    /\ requests = [r \in ReqIds |-> NoRequest]
    /\ leaderStatus = NoLeaderStatus
    /\ vmTasks = <<>>
    /\ vmTaskRunning = FALSE
    /\ sent = <<>>
    /\ dispatched = <<>>
    /\ tookAction = FALSE
    /\ readyFor = NoHash
    /\ deadlineRearmed = FALSE
    /\ opEv = Ev("init", NoState)

ProcessorReadyStep(msg) ==
    /\ CommitOperator(EventProcessorReady(OperatorState, msg))
    /\ opEv' = Ev("ProcessorIsReady", NoState)

ProcessorReady == \E msg \in ProcessorIsReadyMsgs : ProcessorReadyStep(msg)

StateTransitionStep(msg, env) ==
    /\ stateIndex < MaxStateIndex
    /\ CommitOperator(EventStateTransitionMsg(OperatorState, msg, env))
    /\ opEv' = [Ev("StateTransitionMsg", msg.StateIndex) EXCEPT
                    !.completed = msg.Completed, !.deleteError = msg.DeleteError]

\* the handler sets the leader rotation deadline before it calls takeAction:
\* the deadline has not passed when takeAction looks at it
FreshEnvs == { env \in Envs : ~env.expired }

StateTransition == \E msg \in StateTransitionMsgs, env \in FreshEnvs : StateTransitionStep(msg, env)

RequestStep(msg, env) ==
    /\ CommitOperator(EventRequestMsg(OperatorState, msg, env))
    /\ opEv' = Ev("RequestMsg", NoState)

Request == \E msg \in RequestMsgs, env \in Envs : RequestStep(msg, env)

NotifyReqStep(msg, env) ==
    /\ CommitOperator(EventNotifyReqMsg(OperatorState, msg, env))
    /\ opEv' = Ev("NotifyReqMsg", msg.StateIndex)

NotifyReq == \E msg \in NotifyReqMsgs, env \in Envs : NotifyReqStep(msg, env)

StartProcessingBatchStep(msg) ==
    /\ Len(vmTasks) < MaxTasks
    /\ CommitOperator(EventStartProcessingBatchMsg(OperatorState, msg))
    /\ opEv' = Ev("StartProcessingBatchMsg", msg.StateIndex)

StartProcessingBatch == \E msg \in StartProcessingBatchMsgs : StartProcessingBatchStep(msg)

\* the operator's state at the entry of the completion handler of the i-th
\* running VM task: the task has left the worker and vm_task_running is cleared
CompletionEntry(i) ==
    [OperatorState EXCEPT
        !.vmTasks = SubSeq(vmTasks, 1, i - 1) \o SubSeq(vmTasks, i + 1, Len(vmTasks)),
        !.vmTaskRunning = FALSE]

\* a VM task completes and is handed to EventResultCalculated
ResultCalculatedStep(i, env) ==
    /\ i \in 1..Len(vmTasks)
    /\ CommitOperator(EventResultCalculated(CompletionEntry(i), vmTasks[i], env))
    /\ opEv' = Ev("ResultCalculated", ResultStateIndex(vmTasks[i]) - 1)

ResultCalculated == \E i \in 1..MaxTasks, env \in Envs : ResultCalculatedStep(i, env)

SignedHashStep(msg, env) ==
    /\ CommitOperator(EventSignedHashMsg(OperatorState, msg, env))
    /\ opEv' = Ev("SignedHashMsg", msg.StateIndex)

SignedHash == \E msg \in SignedHashMsgs, env \in Envs : SignedHashStep(msg, env)

TimerStep(tick, env) ==
    /\ CommitOperator(EventTimerMsg(OperatorState, tick, env))
    /\ opEv' = Ev("TimerTick", NoState)

Timer == \E tick \in TimerTicks, env \in Envs : TimerStep(tick, env)

OperatorNext ==
    \/ ProcessorReady
    \/ StateTransition
    \/ Request
    \/ NotifyReq
    \/ StartProcessingBatch
    \/ ResultCalculated
    \/ SignedHash
    \/ Timer

(***************************************************************************)
(* PEERING, statement by statement: the receive handler and the Close      *)
(* handler of each connection run in goroutines of their own; a step is    *)
(* one statement of part_000 that reads or writes shared state. The        *)
(* position of a handler is the line it is about to run.                   *)
(***************************************************************************)
LockConns == 1..MaxLockConn
NoHolder == <<>>
NoMsg == <<>>
RecvThread(c) == <<"recv", c>>
CloseThread(c) == <<"close", c>>

\* what arrives in this view: the handshakes and one application message
LockInputs == HandshakeMsgs \cup {encodeMessage(FirstCommitteeMsgCode, 1, <<20>>)}

\* lines 21-39 for an accepted connection: created open and detached
LockAccept ==
    \E c \in LockConns :
        /\ FreeConn(c)
        /\ connState' = [connState EXCEPT ![c] = "open"]
        /\ UNCHANGED <<peerconn, handshakeOk, connPeer, lockVars>>
        /\ UNCHANGED <<chunks, triggered, assembled, handshakeSent, panicked, lastEv,
                       operatorVars, sandboxVars, registryVars>>

\* lines 21-39 for a dialled connection: created open, bound to the
\* outbound peer and put into the peer's slot
LockDial ==
    \E p \in PeerIds, c \in LockConns :
        /\ ~isInbound(p)
        /\ peerconn[p] = NoConn
        /\ FreeConn(c)
        /\ connState' = [connState EXCEPT ![c] = "open"]
        /\ connPeer' = [connPeer EXCEPT ![c] = p]
        /\ peerconn' = [peerconn EXCEPT ![p] = c]
        /\ UNCHANGED <<handshakeOk, lockVars>>
        /\ UNCHANGED <<chunks, triggered, assembled, handshakeSent, panicked, lastEv,
                       operatorVars, sandboxVars, registryVars>>

\* the variables the statements of the handlers leave alone
LockFrame ==
    UNCHANGED <<chunks, triggered, assembled, handshakeSent, panicked, lastEv,
                operatorVars, sandboxVars, registryVars>>

\* the handler moves to a line; back at "idle" it has returned and its
\* message is gone
RecvGoto(c, line) ==
    /\ recvAt' = [recvAt EXCEPT ![c] = line]
    /\ recvMsg' = IF line = "idle" THEN [recvMsg EXCEPT ![c] = NoMsg] ELSE recvMsg
CloseGoto(c, line) == closeAt' = [closeAt EXCEPT ![c] = line]

\* bconn.Close(): the connection closes once, and its Close handler starts
StartClose(c) ==
    IF c # NoConn /\ connState[c] = "open"
    THEN connState' = [connState EXCEPT ![c] = "closed"] /\ CloseGoto(c, "l30")
    ELSE UNCHANGED <<connState, closeAt>>

\* line 42: a message arrives on an open connection whose handler is idle
RecvBegin(c) ==
    \E data \in LockInputs :
        /\ connState[c] = "open"
        /\ recvAt[c] = "idle"
        /\ recvAt' = [recvAt EXCEPT ![c] = "l59"]
        /\ recvMsg' = [recvMsg EXCEPT ![c] = decodeMessage(data)]
        /\ UNCHANGED <<peerconn, handshakeOk, connState, connPeer, closeAt, mutex>>
        /\ LockFrame

\* line 59: if bconn.peer != nil; lines 81-87 for a detached connection
RecvL59(c) ==
    /\ recvAt[c] = "l59"
    /\ RecvGoto(c, IF connPeer[c] # NoPeer THEN "l61"
                   ELSE IF recvMsg[c].MsgType # MsgTypeHandshake THEN "idle" ELSE "l118")
    /\ UNCHANGED <<peerconn, handshakeOk, connState, connPeer, closeAt, mutex>>
    /\ LockFrame

\* line 61: if bconn.peer.handshakeOk, read without the peer's mutex;
\* lines 63-69 deliver the message, lines 72-75 drop a non-handshake
RecvL61(c) ==
    /\ recvAt[c] = "l61"
    /\ RecvGoto(c, IF handshakeOk[connPeer[c]] THEN "idle"
                   ELSE IF recvMsg[c].MsgType # MsgTypeHandshake THEN "idle" ELSE "l96")
    /\ UNCHANGED <<peerconn, handshakeOk, connState, connPeer, closeAt, mutex>>
    /\ LockFrame

\* line 96: the id of the reply against the peer's; line 99 closes the
\* connection in the peer's slot
RecvL96(c) ==
    /\ recvAt[c] = "l96"
    /\ IF recvMsg[c].MsgData # PeeringId(connPeer[c])
       THEN RecvGoto(c, "idle") /\ StartClose(peerconn[connPeer[c]])
       ELSE RecvGoto(c, "l102") /\ UNCHANGED <<connState, closeAt>>
    /\ UNCHANGED <<peerconn, handshakeOk, connPeer, mutex>>
    /\ LockFrame

\* line 102: bconn.peer.handshakeOk = true, written without the peer's mutex
RecvL102(c) ==
    /\ recvAt[c] = "l102"
    /\ handshakeOk' = [handshakeOk EXCEPT ![connPeer[c]] = TRUE]
    /\ RecvGoto(c, "idle")
    /\ UNCHANGED <<peerconn, connState, connPeer, closeAt, mutex>>
    /\ LockFrame

\* lines 117-125: the lookup in peers; line 123 closes the connection
RecvL118(c) ==
    /\ recvAt[c] = "l118"
    /\ IF InboundPeersOfId(recvMsg[c].MsgData) = {}
       THEN RecvGoto(c, "idle") /\ StartClose(c)
       ELSE RecvGoto(c, "l126") /\ UNCHANGED <<connState, closeAt>>
    /\ UNCHANGED <<peerconn, handshakeOk, connPeer, mutex>>
    /\ LockFrame

\* line 126: bconn.peer = peer
RecvL126(c) ==
    /\ recvAt[c] = "l126"
    /\ connPeer' = [connPeer EXCEPT ![c] = CHOOSE p \in InboundPeersOfId(recvMsg[c].MsgData) : TRUE]
    /\ RecvGoto(c, "l128")
    /\ UNCHANGED <<peerconn, handshakeOk, connState, closeAt, mutex>>
    /\ LockFrame

\* line 128: peer.Lock()
RecvL128(c) ==
    /\ recvAt[c] = "l128"
    /\ mutex[connPeer[c]] = NoHolder
    /\ mutex' = [mutex EXCEPT ![connPeer[c]] = RecvThread(c)]
    /\ RecvGoto(c, "l129")
    /\ UNCHANGED <<peerconn, handshakeOk, connState, connPeer, closeAt>>
    /\ LockFrame

\* line 129: peer.peerconn = bconn
RecvL129(c) ==
    /\ recvAt[c] = "l129"
    /\ peerconn' = [peerconn EXCEPT ![connPeer[c]] = c]
    /\ RecvGoto(c, "l130")
    /\ UNCHANGED <<handshakeOk, connState, connPeer, closeAt, mutex>>
    /\ LockFrame

\* line 130: peer.handshakeOk = true
RecvL130(c) ==
    /\ recvAt[c] = "l130"
    /\ handshakeOk' = [handshakeOk EXCEPT ![connPeer[c]] = TRUE]
    /\ RecvGoto(c, "l131")
    /\ UNCHANGED <<peerconn, connState, connPeer, closeAt, mutex>>
    /\ LockFrame

\* line 131: peer.Unlock()
RecvL131(c) ==
    /\ recvAt[c] = "l131"
    /\ mutex' = [mutex EXCEPT ![connPeer[c]] = NoHolder]
    /\ RecvGoto(c, "l135")
    /\ UNCHANGED <<peerconn, handshakeOk, connState, connPeer, closeAt>>
    /\ LockFrame

\* lines 135-142: the reply is sent, or the send fails and the connection is closed
RecvL135(c) ==
    /\ recvAt[c] = "l135"
    /\ RecvGoto(c, "idle")
    /\ \E sendOk \in BOOLEAN :
          IF sendOk THEN UNCHANGED <<connState, closeAt>> ELSE StartClose(c)
    /\ UNCHANGED <<peerconn, handshakeOk, connPeer, mutex>>
    /\ LockFrame

\* the connection is closed by the remote side or by another goroutine of
\* the node, whatever its receive handler is doing
CloseBegin(c) ==
    /\ connState[c] = "open"
    /\ StartClose(c)
    /\ UNCHANGED <<peerconn, handshakeOk, connPeer, recvAt, recvMsg, mutex>>
    /\ LockFrame

\* line 30: if bconn.peer != nil
CloseL30(c) ==
    /\ closeAt[c] = "l30"
    /\ CloseGoto(c, IF connPeer[c] # NoPeer THEN "l31" ELSE "done")
    /\ UNCHANGED <<peerconn, handshakeOk, connState, connPeer, recvAt, recvMsg, mutex>>
    /\ LockFrame

\* line 31: bconn.peer.Lock()
CloseL31(c) ==
    /\ closeAt[c] = "l31"
    /\ mutex[connPeer[c]] = NoHolder
    /\ mutex' = [mutex EXCEPT ![connPeer[c]] = CloseThread(c)]
    /\ CloseGoto(c, "l32")
    /\ UNCHANGED <<peerconn, handshakeOk, connState, connPeer, recvAt, recvMsg>>
    /\ LockFrame

\* line 32: bconn.peer.peerconn = nil
CloseL32(c) ==
    /\ closeAt[c] = "l32"
    /\ peerconn' = [peerconn EXCEPT ![connPeer[c]] = NoConn]
    /\ CloseGoto(c, "l33")
    /\ UNCHANGED <<handshakeOk, connState, connPeer, recvAt, recvMsg, mutex>>
    /\ LockFrame

\* line 33: bconn.peer.handshakeOk = false
CloseL33(c) ==
    /\ closeAt[c] = "l33"
    /\ handshakeOk' = [handshakeOk EXCEPT ![connPeer[c]] = FALSE]
    /\ CloseGoto(c, "l34")
    /\ UNCHANGED <<peerconn, connState, connPeer, recvAt, recvMsg, mutex>>
    /\ LockFrame

\* line 34: bconn.peer.Unlock()
CloseL34(c) ==
    /\ closeAt[c] = "l34"
    /\ mutex' = [mutex EXCEPT ![connPeer[c]] = NoHolder]
    /\ CloseGoto(c, "done")
    /\ UNCHANGED <<peerconn, handshakeOk, connState, connPeer, recvAt, recvMsg>>
    /\ LockFrame

LockingInit ==
    /\ recvAt = [c \in Conns |-> "idle"]
    /\ recvMsg = [c \in Conns |-> NoMsg]
    /\ closeAt = [c \in Conns |-> "idle"]
    /\ mutex = [p \in PeerIds |-> NoHolder]

RecvStep ==
    \E c \in LockConns :
        \/ RecvBegin(c) \/ RecvL59(c) \/ RecvL61(c) \/ RecvL96(c) \/ RecvL102(c)
        \/ RecvL118(c) \/ RecvL126(c) \/ RecvL128(c) \/ RecvL129(c) \/ RecvL130(c)
        \/ RecvL131(c) \/ RecvL135(c)

CloseStep ==
    \E c \in LockConns :
        \/ CloseBegin(c) \/ CloseL30(c) \/ CloseL31(c) \/ CloseL32(c) \/ CloseL33(c)
        \/ CloseL34(c)

LockingNext == LockAccept \/ LockDial \/ RecvStep \/ CloseStep

(***************************************************************************)
(* SANDBOX: the sandbox of one VM call (sandboximpl.go). Builders are      *)
(* objects: the sandbox holds references to them.                          *)
(***************************************************************************)
\* the builder of the VM context, and the clone NewSandbox takes of it
ContextBuilder == "ctx"
ClonedBuilder == "clone"
BuilderIds == {ContextBuilder, ClonedBuilder}

OwnAddress == "self"
TargetAddresses == {OwnAddress, "other"}
RequestCodes == {"code1"}

\* the content of the VM context's builder when the sandbox is created
InitialBuilder == [iotas |-> InitialIotas, outputs |-> <<>>, blocks |-> <<>>]

\* the sandbox as a record, threaded through a call as the code runs
SandboxState ==
    [builders |-> builders, txBuilder |-> txBuilder, saveTxBuilder |-> saveTxBuilder,
     stateUpdate |-> stateUpdate, ret |-> TRUE]

\* NewSandbox: saveTxBuilder is a clone of the context's builder
NewSandbox ==
    [builders |-> [b \in BuilderIds |-> InitialBuilder],
     txBuilder |-> ContextBuilder,
     saveTxBuilder |-> ClonedBuilder,
     stateUpdate |-> <<>>,
     ret |-> TRUE]

\* Builder.GetInputBalance(ColorIOTA)
GetInputBalance(sb) == sb.builders[sb.txBuilder].iotas

\* Builder.MoveToAddress on the builder vctx.TxBuilder refers to: [sb, err]
MoveToAddress(sb, addr, amount, moveOk) ==
    IF ~moveOk \/ amount > GetInputBalance(sb)
    THEN [sb |-> sb, err |-> TRUE]
    ELSE [sb |-> [sb EXCEPT !.builders[sb.txBuilder].iotas = @ - amount,
                            !.builders[sb.txBuilder].outputs =
                                Append(@, [addr |-> addr, amount |-> amount])],
          err |-> FALSE]

\* Builder.AddRequestBlock on the builder vctx.TxBuilder refers to: [sb, err]
AddRequestBlock(sb, reqBlock, addOk) ==
    IF ~addOk
    THEN [sb |-> sb, err |-> TRUE]
    ELSE [sb |-> [sb EXCEPT !.builders[sb.txBuilder].blocks = Append(@, reqBlock)],
          err |-> FALSE]

\* sandbox.Rollback
Rollback(sb) ==
    [sb EXCEPT !.txBuilder = sb.saveTxBuilder,
               !.stateUpdate = <<>>]

\* sandbox.SendRequest; moveOk and addOk tell whether the builder accepts
\* the transfer and the request block
SendRequest(sb, par, moveOk, addOk) ==
    LET moved == IF par.IncludeReward > 0
                 THEN MoveToAddress(sb, par.TargetAddress, par.IncludeReward, moveOk)
                 ELSE [sb |-> sb, err |-> FALSE]
        reqBlock == [target |-> par.TargetAddress, code |-> par.RequestCode]
        added == AddRequestBlock(moved.sb, reqBlock, addOk)
    IN  IF par.IncludeReward > 0 /\ par.IncludeReward + 1 > GetInputBalance(sb)
        THEN [sb EXCEPT !.ret = FALSE]
        ELSE IF moved.err
        THEN [sb EXCEPT !.ret = FALSE]
        ELSE IF added.err
        THEN [moved.sb EXCEPT !.ret = FALSE]
        ELSE [added.sb EXCEPT !.ret = TRUE]

\* sandbox.SendRequestToSelf
SendRequestToSelf(sb, reqCode, moveOk, addOk) ==
    SendRequest(sb, [TargetAddress |-> OwnAddress, RequestCode |-> reqCode, IncludeReward |-> 0],
                moveOk, addOk)

\* a mutation of the state through the sandbox's state access
StateSet(sb, mutation) ==
    [sb EXCEPT !.stateUpdate = Append(@, mutation)]

NewRequestParams ==
    [TargetAddress : TargetAddresses, RequestCode : RequestCodes, IncludeReward : 0..MaxReward]

CommitSandbox(sb, op) ==
    /\ builders' = sb.builders
    /\ txBuilder' = sb.txBuilder
    /\ saveTxBuilder' = sb.saveTxBuilder
    /\ stateUpdate' = sb.stateUpdate
    /\ sbEv' = [op |-> op, ret |-> sb.ret]
    /\ UNCHANGED <<peeringVars, operatorVars, registryVars, lockVars>>

SandboxInit ==
    /\ builders = NewSandbox.builders
    /\ txBuilder = NewSandbox.txBuilder
    /\ saveTxBuilder = NewSandbox.saveTxBuilder
    /\ stateUpdate = NewSandbox.stateUpdate
    /\ sbEv = [op |-> "NewSandbox", ret |-> TRUE]

SbSendRequest ==
    \E par \in NewRequestParams, moveOk \in BOOLEAN, addOk \in BOOLEAN :
        /\ Len(builders[txBuilder].blocks) < MaxBlocks
        /\ CommitSandbox(SendRequest(SandboxState, par, moveOk, addOk), "SendRequest")

SbSendRequestToSelf ==
    \E code \in RequestCodes, addOk \in BOOLEAN :
        /\ Len(builders[txBuilder].blocks) < MaxBlocks
        /\ CommitSandbox(SendRequestToSelf(SandboxState, code, TRUE, addOk), "SendRequestToSelf")

SbStateSet ==
    /\ Len(stateUpdate) < MaxMutations
    /\ CommitSandbox(StateSet(SandboxState, "mutation"), "StateSet")

SbRollback ==
    \E sb \in {Rollback(SandboxState)} : CommitSandbox(sb, "Rollback")

SandboxNext == SbSendRequest \/ SbSendRequestToSelf \/ SbStateSet \/ SbRollback

(***************************************************************************)
(* REGISTRY: the committee descriptors kept in the database (bootup.go).   *)
(***************************************************************************)
NilAddress == 0
Addresses == {NilAddress, 1, 2}
ColorNew == "new"
ColorIOTA == "iota"
Colors == {ColorNew, ColorIOTA, "color1", "color2"}
NodeLists == {<<"a:1000">>, <<"a:1000", "b:2000">>}
NoRecord == <<>>

BootupDatas ==
    [Address : Addresses, OwnerAddress : {1}, Color : Colors,
     CommitteeNodes : NodeLists, AccessNodes : {<<>>}]

\* BootupData.Write: the fields in order, each list after its length
Write(bd) ==
    <<bd.Address, bd.OwnerAddress, bd.Color, Len(bd.CommitteeNodes)>> \o bd.CommitteeNodes
        \o <<Len(bd.AccessNodes)>> \o bd.AccessNodes

\* what the database does in one call: whether Has and Set fail
DbOutcomes == [hasErr : BOOLEAN, setErr : BOOLEAN]

\* a variant without the check of the color
SaveBootupDataAnyColor(reg, bd, overwrite, db) ==
    IF bd.Address = NilAddress
    THEN [reg |-> reg, err |-> TRUE, published |-> <<>>]
    ELSE IF overwrite /\ db.hasErr
    THEN [reg |-> reg, err |-> TRUE, published |-> <<>>]
    ELSE IF overwrite /\ reg[bd.Address] # NoRecord
    THEN [reg |-> reg, err |-> TRUE, published |-> <<>>]
    ELSE [reg |-> IF db.setErr THEN reg ELSE [reg EXCEPT ![bd.Address] = Write(bd)],
          err |-> db.setErr,
          published |-> <<<<"bootuprec", bd.Address, bd.Color>>>>]

\* SaveBootupData: [reg, err, published]. The publication is deferred: it
\* happens when the function returns after line 53, whatever Set returns.
SaveBootupData(reg, bd, overwrite, db) ==
    IF bd.Address = NilAddress
    THEN [reg |-> reg, err |-> TRUE, published |-> <<>>]
    ELSE IF bd.Color = ColorNew \/ bd.Color = ColorIOTA
    THEN [reg |-> reg, err |-> TRUE, published |-> <<>>]
    ELSE IF overwrite /\ db.hasErr
    THEN [reg |-> reg, err |-> TRUE, published |-> <<>>]
    ELSE IF overwrite /\ reg[bd.Address] # NoRecord
    THEN [reg |-> reg, err |-> TRUE, published |-> <<>>]
    ELSE [reg |-> IF db.setErr THEN reg ELSE [reg EXCEPT ![bd.Address] = Write(bd)],
          err |-> db.setErr,
          published |-> <<<<"bootuprec", bd.Address, bd.Color>>>>]

RegistryInit ==
    /\ registry = [a \in Addresses |-> NoRecord]
    /\ published = <<>>
    /\ regEv = [op |-> "init"]

SaveBootup ==
    \E bd \in BootupDatas, overwrite \in BOOLEAN, db \in DbOutcomes :
        LET r == SaveBootupData(registry, bd, overwrite, db)
        IN  /\ registry' = r.reg
            /\ published' = r.published
            /\ regEv' = [op |-> "SaveBootupData", bd |-> bd, overwrite |-> overwrite,
                         db |-> db, err |-> r.err]
            /\ UNCHANGED <<peeringVars, operatorVars, sandboxVars, lockVars>>

RegistryNext == SaveBootup

(***************************************************************************)
(* The specifications.                                                     *)
(***************************************************************************)
\* the node starts with no connection and an operator without a state
Init == PeeringInit /\ OperatorInit /\ SandboxInit /\ RegistryInit /\ LockingInit

SpecPeering == Init /\ [][PeeringNext]_vars

SpecOperator == Init /\ [][OperatorNext]_vars

SpecSandbox == Init /\ [][SandboxNext]_vars

SpecRegistry == Init /\ [][RegistryNext]_vars

SpecLocking == Init /\ [][LockingNext]_vars

(***************************************************************************)
(* CLAIMS about the consensus operator (SpecOperator).                     *)
(***************************************************************************)
StoredShares(ls) == { i \in OtherPeers : ls # NoLeaderStatus /\ ls.signedResults[i] # NoResult }

\* the gates of EventSignedHashMsg on the state before the handler runs
SignedHashGates(msg) ==
    /\ leaderStatus # NoLeaderStatus
    /\ stateIndex # NoState
    /\ msg.StateIndex = stateIndex
    /\ msg.BatchHash = leaderStatus.batchHash
    /\ leaderStatus.signedResults[msg.SenderIndex] = NoResult

ShareOf(msg) == [essenceHash |-> msg.EssenceHash, sigShare |-> msg.SigShare]

\* the essence hash of the leader's own result for the batch it proposed
OwnEssenceHash ==
    EssenceHash([stateIndex |-> stateIndex, requests |-> leaderStatus.reqIds,
                 timestamp |-> leaderStatus.timestamp])

\* C1 as claimed: a share whose essence hash disagrees with the leader's own
\* is never stored in the signed results.
C1_NoDisagreeingShare ==
    \A i \in StoredShares(leaderStatus) :
        leaderStatus.signedResults[i].essenceHash = OwnEssenceHash

\* C1 as amended: EventSignedHashMsg records the share of the message under
\* the sender's peer index, with the essence hash the message carries, when
\* the leader status exists, the state index is the current one, the batch
\* hash is the leader status' and the sender has no share recorded; it
\* records nothing and changes nothing otherwise. The essence hash is not
\* compared. (After recording, takeAction may clear the leader status: on a
\* quorum, with the anchor submitted, or on leader rotation.)
C1_SignedHashGates ==
    [][opEv'.op = "SignedHashMsg" =>
        \A msg \in { m \in SignedHashMsgs : m.StateIndex = opEv'.stateIndex }, env \in Envs :
            SignedHashStep(msg, env) =>
                IF SignedHashGates(msg)
                THEN \/ /\ leaderStatus' # NoLeaderStatus
                        /\ leaderStatus'.signedResults[msg.SenderIndex] = ShareOf(msg)
                        /\ \A i \in Peers \ {msg.SenderIndex} :
                              leaderStatus'.signedResults[i] = leaderStatus.signedResults[i]
                     \/ /\ leaderStatus' = NoLeaderStatus
                        /\ \/ leader' # leader
                           \/ \E k \in 1..Len(sent') : sent'[k].type = "Anchor"
                ELSE leaderStatus' = leaderStatus /\ sent' = <<>>
    ]_vars

\* a share with an essence hash that disagrees with the leader's own is stored
C1_Witness ==
    /\ opEv.op = "SignedHashMsg"
    /\ \E i \in StoredShares(leaderStatus) :
          leaderStatus.signedResults[i].essenceHash # OwnEssenceHash

\* C2 as claimed: at most one VM task is running, and vm_task_running is
\* true exactly while a dispatched task has not reached its completion handler.
C2_AtMostOneTask ==
    /\ Len(vmTasks) <= 1
    /\ vmTaskRunning <=> (vmTasks # <<>>)

\* C9: a StartProcessingBatchMsg or SignedHashMsg for another state index
\* than the current one, and a VM result whose batch is not for the next
\* state index, change neither the backlog nor the leader status (with its
\* signed results), dispatch no VM task and send nothing.
StaleEventStep ==
    \/ /\ opEv'.op \in {"StartProcessingBatchMsg", "SignedHashMsg"}
       /\ opEv'.stateIndex # stateIndex
       /\ vmTasks' = vmTasks
    \/ /\ opEv'.op = "ResultCalculated"
       /\ opEv'.stateIndex + 1 # stateIndex + 1
       /\ Len(vmTasks') = Len(vmTasks) - 1

C9_StaleEventsDropped ==
    [][(opEv'.op \in {"StartProcessingBatchMsg", "SignedHashMsg", "ResultCalculated"}
        /\ opEv'.stateIndex # stateIndex) =>
            /\ StaleEventStep
            /\ requests' = requests
            /\ leaderStatus' = leaderStatus
            /\ dispatched' = <<>>
            /\ sent' = <<>>
            /\ stateIndex' = stateIndex
            /\ leader' = leader
    ]_vars

\* the result of a task dispatched in an earlier state has been dropped
C9_Witness ==
    /\ opEv.op = "ResultCalculated"
    /\ opEv.stateIndex # stateIndex
    /\ sent = <<>>

\* C10: a StartProcessingBatchMsg for the current state index dispatches a
\* VM task iff every listed request is in the backlog and ready; the task is
\* over exactly the listed requests, with the timestamp of the message and
\* its sender as the leader; otherwise nothing is dispatched.
AllListedReady(msg) ==
    \A k \in 1..Len(msg.RequestIds) :
        /\ requests[msg.RequestIds[k]] # NoRequest
        /\ requests[msg.RequestIds[k]].ready

TaskOf(msg) ==
    [requests |-> msg.RequestIds, timestamp |-> msg.Timestamp,
     leaderPeerIndex |-> msg.SenderIndex, stateIndex |-> stateIndex]

C10_DispatchIffAllReady ==
    [][(opEv'.op = "StartProcessingBatchMsg" /\ opEv'.stateIndex = stateIndex) =>
        \A msg \in { m \in StartProcessingBatchMsgs : m.StateIndex = stateIndex } :
            StartProcessingBatchStep(msg) =>
                IF AllListedReady(msg)
                THEN dispatched' = <<TaskOf(msg)>> /\ vmTasks' = Append(vmTasks, TaskOf(msg))
                ELSE dispatched' = <<>> /\ vmTasks' = vmTasks
    ]_vars

\* a follower has dispatched a task over more than one request
C10_Witness ==
    /\ opEv.op = "StartProcessingBatchMsg"
    /\ opEv.stateIndex = stateIndex
    /\ dispatched # <<>>
    /\ Len(dispatched[1].requests) > 1
    /\ dispatched[1].leaderPeerIndex # OwnPeerIndex

\* the messages of a type among those the handler run has sent
SentOfType(msgs, type) == { k \in 1..Len(msgs) : msgs[k].type = type }

\* the signed result the node's own VM run gives for a task
OwnShare(ctx) == [essenceHash |-> EssenceHash(ctx), sigShare |-> OwnPeerIndex]

\* the own result of the task is in the leader status after the handler, or
\* takeAction has used the leader status that held it up (anchor submitted)
\* or reset it (leader rotation)
OwnResultStored(ctx) ==
    \/ /\ leaderStatus' # NoLeaderStatus
       /\ leaderStatus'.signedResults[OwnPeerIndex] = OwnShare(ctx)
    \/ /\ leaderStatus' = NoLeaderStatus
       /\ leaderStatus # NoLeaderStatus
       /\ \/ leader' # leader
          \/ SentOfType(sent', "Anchor") # {}

\* no own result is in the leader status after the handler that was not there before
NoResultStored ==
    leaderStatus' # NoLeaderStatus =>
        \/ leaderStatus'.signedResults[OwnPeerIndex] = NoResult
        \/ /\ leaderStatus # NoLeaderStatus
           /\ leaderStatus'.signedResults[OwnPeerIndex] = leaderStatus.signedResults[OwnPeerIndex]

\* exactly one PendingBatchMsg, with the result batch, goes to the state manager
OnePendingBatch(ctx) ==
    /\ Cardinality(SentOfType(sent', "PendingBatchMsg")) = 1
    /\ \A k \in SentOfType(sent', "PendingBatchMsg") :
          sent'[k].to = "statemgr" /\ sent'[k].body = <<ResultStateIndex(ctx)>>

\* exactly one SignedHashMsg, to the task's leader, with the hashes of the task
OneSignedHashToLeader(ctx) ==
    /\ Cardinality(SentOfType(sent', "SignedHashMsg")) = 1
    /\ \A k \in SentOfType(sent', "SignedHashMsg") :
          /\ sent'[k].to = ctx.leaderPeerIndex
          /\ sent'[k].body = <<stateIndex, BatchHash(ctx.requests, ctx.timestamp), EssenceHash(ctx)>>

OperatorStateChanged ==
    \/ <<stateIndex, programHash, synchronized, processorReady, leader,
         leaderRotationDeadlineSet, requests, leaderStatus>>' #
       <<stateIndex, programHash, synchronized, processorReady, leader,
         leaderRotationDeadlineSet, requests, leaderStatus>>
    \/ dispatched' # <<>>

\* C12 as claimed: every handler run that changes the operator's state
\* calls takeAction before it returns.
C12_TakeActionAfterChange ==
    [][(opEv'.op # "init" /\ OperatorStateChanged) => tookAction']_vars

\* the backlog after the handler holds no request completed in the new state
BacklogPruned ==
    /\ \A r \in opEv'.completed : requests'[r] = NoRequest
    /\ \A r \in ReqIds \ opEv'.completed : requests'[r] # NoRequest <=> requests[r] # NoRequest

\* the requests of the pruned backlog are notified to the leader of the new
\* state, when that is another node
NewLeaderNotified ==
    leader' # OwnPeerIndex =>
        \E k \in SentOfType(sent', "NotifyReqMsg") :
            /\ sent'[k].to = leader'
            /\ sent'[k].body[1] = stateIndex'
            /\ \A r \in ReqIds :
                  (\E j \in 1..Len(sent'[k].body[2]) : sent'[k].body[2][j] = r)
                      <=> (r \notin opEv'.completed /\ requests[r] # NoRequest /\ requests[r].ready)

RequestIgnored ==
    /\ UNCHANGED <<stateIndex, programHash, synchronized, processorReady, leader,
                   leaderRotationDeadlineSet, requests, leaderStatus, vmTasks, vmTaskRunning>>
    /\ sent' = <<>>
    /\ dispatched' = <<>>
    /\ ~tookAction'

\* the request is in the backlog with its message arrived: added when new,
\* the entry it had kept otherwise; no other entry changes
RequestInBacklog(r) ==
    /\ requests'[r] # NoRequest
    /\ requests'[r].ready
    /\ IF requests[r] = NoRequest
       THEN requests'[r].notified = {OwnPeerIndex}
       ELSE requests'[r].notified = requests[r].notified \cup {OwnPeerIndex}
    /\ \A q \in ReqIds \ {r} : requests'[q] = requests[q]
    /\ (SentOfType(sent', "request_in") # {}) <=> (requests[r] = NoRequest)

\* the leader at the time of the message knows that this node has the
\* request: by a NotifyReqMsg, or by the backlog entry when it is this node
LeaderNotifiedOf(r) ==
    IF leader = OwnPeerIndex
    THEN OwnPeerIndex \in requests'[r].notified
    ELSE \E k \in SentOfType(sent', "NotifyReqMsg") :
            sent'[k].to = leader /\ sent'[k].body = <<stateIndex, <<r>>>>

\* C14: a RequestMsg whose block fails validation is ignored (backlog
\* unchanged, nothing sent or published, deadline not set, takeAction not
\* called); a valid one is added to the backlog only if new, and is always
\* notified to the current leader.
C14_InvalidRequestIgnored ==
    [][opEv'.op = "RequestMsg" =>
        \A msg \in RequestMsgs, env \in Envs :
            RequestStep(msg, env) =>
                IF ~msg.Valid
                THEN RequestIgnored
                ELSE /\ RequestInBacklog(msg.RequestId)
                     /\ LeaderNotifiedOf(msg.RequestId)
                     /\ leaderRotationDeadlineSet'
                     /\ tookAction'
    ]_vars

\* a request message has been ignored in a state with a backlog
C14_Witness ==
    /\ opEv.op = "RequestMsg"
    /\ ~tookAction
    /\ sent = <<>>
    /\ \E r \in ReqIds : requests[r] # NoRequest

(***************************************************************************)
(* CLAIMS about the peer transport (SpecPeering).                          *)
(***************************************************************************)
\* the connection is bound to a peer that has completed the handshake
Handshaked(c) == connPeer[c] # NoPeer /\ handshakeOk[connPeer[c]]

OpenConnsOf(p) == { c \in Conns : connState[c] = "open" /\ connPeer[c] = p }

\* C3 as claimed: a peer whose handshakeOk is true has a connection in its
\* slot; and once a connection bound to a peer has closed, the peer has
\* handshakeOk false and an empty slot.
C3_HandshakeOkHasConnection ==
    /\ \A p \in PeerIds : handshakeOk[p] => peerconn[p] # NoConn
    /\ (lastEv.op = "close" /\ connPeer[lastEv.conn] # NoPeer) =>
            /\ ~handshakeOk[connPeer[lastEv.conn]]
            /\ peerconn[connPeer[lastEv.conn]] = NoConn

\* C4 as claimed: never two open connections bound to the same peer, and
\* closing a connection never clears the slot of another, open connection.
C4_OneConnectionPerPeer ==
    [][/\ \A p \in PeerIds : Cardinality(OpenConnsOf(p))' <= 1
       /\ lastEv'.op = "close" =>
            \A p \in PeerIds :
                (/\ peerconn[p] # NoConn
                 /\ peerconn[p] # lastEv'.conn
                 /\ connState'[peerconn[p]] = "open") => peerconn'[p] = peerconn[p]
    ]_vars

\* C5 as claimed: a message that is not a HANDSHAKE, received on a
\* connection before the handshake, closes the connection.
C5_NonHandshakeClosesConn ==
    [][LET c == lastEv'.conn
           msg == decodeMessage(lastEv'.data)
       IN  (/\ lastEv'.op = "receiveData"
            /\ ~msg.err
            /\ msg.MsgType # MsgTypeHandshake
            /\ ~Handshaked(c)) => connState'[c] = "closed"
    ]_vars

\* the chopper refuses the chunk that the message carries
ChunkError(msg, c) ==
    /\ ~msg.err
    /\ msg.MsgType = MsgTypeMsgChunk
    /\ IncomingChunk(chunks, msg.MsgData, c).err

\* C6 as claimed: a decode error or a chunk reassembly failure closes the
\* connection it occurred on, bound to a peer or not, and delivers nothing.
C6_ErrorClosesConn ==
    [][LET c == lastEv'.conn
           msg == decodeMessage(lastEv'.data)
       IN  (lastEv'.op = "receiveData" /\ (msg.err \/ ChunkError(msg, c))) =>
                connState'[c] = "closed" /\ triggered' = <<>>
    ]_vars

\* C7 as claimed: of the chunks of a message arriving on a handshaked
\* connection only the composite is delivered, when the last chunk arrives;
\* no MSG_CHUNK message is delivered.
C7_OnlyCompositeDelivered ==
    [][LET c == lastEv'.conn
           msg == decodeMessage(lastEv'.data)
       IN  (/\ lastEv'.op = "receiveData"
            /\ Handshaked(c)
            /\ ~msg.err
            /\ msg.MsgType = MsgTypeMsgChunk
            /\ ~ChunkError(msg, c)) =>
                LET final == IncomingChunk(chunks, msg.MsgData, c).final
                IN  /\ \A k \in 1..Len(triggered') : triggered'[k].MsgType # MsgTypeMsgChunk
                    /\ triggered' = IF final = <<>> THEN <<>> ELSE <<decodeMessage(final)>>
    ]_vars

\* C8 as claimed: chunks that arrived on different connections are never
\* combined into one composite, and closing a connection discards the chunks
\* buffered from it.
C8_ChunksPerConnection ==
    [][/\ \A k \in 1..Len(assembled') : Cardinality(assembled'[k].from) <= 1
       /\ lastEv'.op = "close" =>
            \A m \in DOMAIN chunks' : lastEv'.conn \notin chunks'[m].from
    ]_vars

\* the registered inbound peers with the peering id the payload carries
InboundPeersOf(payload) == { p \in PeerIds : PeeringId(p) = payload /\ isInbound(p) }

\* C15: on a detached connection a HANDSHAKE binds the connection to a peer
\* and has the reply sent iff the payload is the id of a registered peer that
\* is inbound; otherwise the connection is closed, stays detached, and no
\* peer's connection slot or handshakeOk changes.
C15_InboundHandshake ==
    [][LET c == lastEv'.conn
           msg == decodeMessage(lastEv'.data)
       IN  (/\ lastEv'.op = "receiveData"
            /\ ~msg.err
            /\ msg.MsgType = MsgTypeHandshake
            /\ connPeer[c] = NoPeer) =>
                IF InboundPeersOf(msg.MsgData) # {}
                THEN \E p \in InboundPeersOf(msg.MsgData) :
                        /\ connPeer'[c] = p
                        /\ Len(handshakeSent') = 1
                        /\ handshakeSent'[1].peer = p
                        /\ IF handshakeSent'[1].ok
                           THEN connState'[c] = "open" /\ peerconn'[p] = c /\ handshakeOk'[p]
                           ELSE connState'[c] = "closed"
                ELSE /\ connState'[c] = "closed"
                     /\ connPeer'[c] = NoPeer
                     /\ handshakeSent' = <<>>
                     /\ peerconn' = peerconn
                     /\ handshakeOk' = handshakeOk
    ]_vars

\* an accepted connection has been bound by a HANDSHAKE and the reply sent
C15_Witness ==
    /\ lastEv.op = "receiveData"
    /\ handshakeSent # <<>>
    /\ handshakeSent[1].ok
    /\ connState[lastEv.conn] = "open"
    /\ connPeer[lastEv.conn] # NoPeer
    /\ isInbound(connPeer[lastEv.conn])
    /\ peerconn[connPeer[lastEv.conn]] = lastEv.conn

\* C16: on a dialed connection waiting for the reply, the peer gets
\* handshakeOk iff the HANDSHAKE reply carries the peer's peering id; with
\* any other payload the connection is closed and handshakeOk stays false.
C16_OutboundHandshake ==
    [][LET c == lastEv'.conn
           msg == decodeMessage(lastEv'.data)
           p == connPeer[c]
       IN  (/\ lastEv'.op = "receiveData"
            /\ ~msg.err
            /\ msg.MsgType = MsgTypeHandshake
            /\ p # NoPeer
            /\ ~isInbound(p)
            /\ ~handshakeOk[p]) =>
                IF msg.MsgData = PeeringId(p)
                THEN handshakeOk'[p] /\ connState'[c] = "open" /\ peerconn'[p] = c
                ELSE ~handshakeOk'[p] /\ connState'[c] = "closed" /\ peerconn'[p] = NoConn
    ]_vars

\* a dialed connection has got the expected HANDSHAKE reply
C16_Witness ==
    /\ lastEv.op = "receiveData"
    /\ ~decodeMessage(lastEv.data).err
    /\ decodeMessage(lastEv.data).MsgType = MsgTypeHandshake
    /\ connPeer[lastEv.conn] # NoPeer
    /\ ~isInbound(connPeer[lastEv.conn])
    /\ handshakeOk[connPeer[lastEv.conn]]
    /\ triggered = <<>>
(***************************************************************************)
(* CLAIMS about the sandbox (SpecSandbox).                                 *)
(***************************************************************************)
\* C17 as claimed: right after every Rollback the transaction builder has
\* the content it had when the sandbox was created, and the state update is
\* empty.
C17_RollbackRestores ==
    sbEv.op = "Rollback" =>
        /\ builders[txBuilder] = InitialBuilder
        /\ stateUpdate = <<>>

(***************************************************************************)
(* CLAIMS about the registry (SpecRegistry).                               *)
(***************************************************************************)
\* the descriptor has no address or a forbidden color
Rejected(bd) == bd.Address = NilAddress \/ bd.Color \in {ColorNew, ColorIOTA}

\* C18: SaveBootupData with an empty address or with the new or the IOTA
\* color returns an error, writes nothing to the registry and publishes
\* nothing.
C18_ForbiddenRejected ==
    [][(regEv'.op = "SaveBootupData" /\ Rejected(regEv'.bd)) =>
            /\ regEv'.err
            /\ registry' = registry
            /\ published' = <<>>
    ]_vars

\* a descriptor with a forbidden color was rejected by a registry with records
C18_Witness ==
    /\ regEv.op = "SaveBootupData"
    /\ regEv.bd.Address # NilAddress
    /\ regEv.bd.Color \in {ColorNew, ColorIOTA}
    /\ regEv.err
    /\ published = <<>>
    /\ \E a \in Addresses : registry[a] # NoRecord

\* C20 as claimed: for an address that has a record, SaveBootupData with
\* overwrite false returns an error and leaves the record as it is, and with
\* overwrite true it replaces the record (the database working).
C20_OverwriteHonoured ==
    [][(/\ regEv'.op = "SaveBootupData"
        /\ ~Rejected(regEv'.bd)
        /\ registry[regEv'.bd.Address] # NoRecord
        /\ ~regEv'.db.hasErr /\ ~regEv'.db.setErr) =>
            IF regEv'.overwrite
            THEN ~regEv'.err /\ registry'[regEv'.bd.Address] = Write(regEv'.bd)
            ELSE regEv'.err /\ registry' = registry
    ]_vars
\* C22: processorReady is true only for the program hash of the operator's
\* current state: never while the program hash is undefined, and never for
\* the program hash of an earlier state.
C22_ReadyForCurrentHash ==
    processorReady => programHash # NoHash /\ readyFor = programHash

\* a RequestMsg was handled while a leader rotation deadline was set
RequestUnderDeadline == opEv'.op = "RequestMsg" /\ leaderRotationDeadlineSet

WorkingBuilder == builders[txBuilder]

\* the last sandbox call was SendRequest, directly or through SendRequestToSelf
SendRequestReturned(ret) ==
    sbEv.op \in {"SendRequest", "SendRequestToSelf"} /\ sbEv.ret = ret

\* C21: SendRequest is all-or-nothing. When it returns false the transaction
\* builder is as it was before the call, so no reward has been moved; when
\* it returns true exactly one request block has been added.
C21_SendRequestAllOrNothing ==
    [][/\ SendRequestReturned(FALSE)' => WorkingBuilder' = WorkingBuilder
       /\ SendRequestReturned(TRUE)' =>
              Len(WorkingBuilder'.blocks) = Len(WorkingBuilder.blocks) + 1]_vars

(***************************************************************************)
(* CLAIMS about the goroutines of the peer transport (SpecLocking).        *)
(***************************************************************************)
\* the accesses to a peer's peerconn and handshakeOk that the goroutines are
\* about to make: the statement each handler is at
PendingAccesses ==
    { [thread |-> RecvThread(c), peer |-> connPeer[c], field |-> "handshakeOk", write |-> FALSE] :
        c \in { d \in Conns : recvAt[d] = "l61" } }
    \cup
    { [thread |-> RecvThread(c), peer |-> connPeer[c], field |-> "handshakeOk", write |-> TRUE] :
        c \in { d \in Conns : recvAt[d] \in {"l102", "l130"} } }
    \cup
    { [thread |-> RecvThread(c), peer |-> connPeer[c], field |-> "peerconn", write |-> TRUE] :
        c \in { d \in Conns : recvAt[d] = "l129" } }
    \cup
    { [thread |-> CloseThread(c), peer |-> connPeer[c], field |-> "peerconn", write |-> TRUE] :
        c \in { d \in Conns : closeAt[d] = "l32" } }
    \cup
    { [thread |-> CloseThread(c), peer |-> connPeer[c], field |-> "handshakeOk", write |-> TRUE] :
        c \in { d \in Conns : closeAt[d] = "l33" } }

HoldsMutex(a) == mutex[a.peer] = a.thread

\* two goroutines are at accesses of the same field of the same peer, one
\* of them a write, and not both under the peer's mutex
Race ==
    \E a, b \in PendingAccesses :
        /\ a.thread # b.thread
        /\ a.peer = b.peer
        /\ a.field = b.field
        /\ a.write \/ b.write
        /\ ~(HoldsMutex(a) /\ HoldsMutex(b))

\* C19 as claimed: every read and write of a peer's peerconn and
\* handshakeOk is made by a goroutine that holds the peer's mutex, and so
\* no receive handler races with a Close handler on these fields.
C19_AccessUnderMutex ==
    /\ \A a \in PendingAccesses : HoldsMutex(a)
    /\ ~Race

====
